---- MODULE Spec2Model ----
(***************************************************************************)
(* State machine of asionet's ServiceClient (ServiceClient.h) over the     *)
(* timed operations of Closeable.h, the framed stream operations of        *)
(* Stream.h and the message layer of Message.h.                            *)
(*                                                                         *)
(* One client, one cooperative executor.  Every action is one handler run  *)
(* on the executor (or one user-thread entry point: asyncCall, stop,       *)
(* call); handlers never interleave.  The parts of the library that are    *)
(* not in the four files (QueuedExecutor, BusyLock, Timer, asyncConnect,   *)
(* the transport itself) are modelled from their description.              *)
(*                                                                         *)
(* Spec leaves deadlines unmeasured: an armed timer may expire at any      *)
(* moment.  SpecTimed runs a discrete clock for asyncCalls alone (no       *)
(* stop(), no call()): timers fire at their deadlines, and handlers that   *)
(* are ready and timers that are due run before the clock advances.        *)
(***************************************************************************)
EXTENDS Integers, Sequences, FiniteSets, TLC

\* ------------------------------------------------------------- bounds
MaxCalls == 2       \* asyncCalls submitted in one behaviour
MaxSync == 1        \* synchronous call() attempts in one behaviour
MaxStops == 1       \* stop() calls in one behaviour
MaxTime == 2        \* the clock runs from 0 to MaxTime
MaxTimeout == 2     \* caller timeouts are drawn from 0..MaxTimeout
MaxBody == 1        \* payload lengths are drawn from 0..MaxBody

\* ------------------------------------------------- program constants
HEADER_SIZE == 4    \* Frame::HEADER_SIZE, the 4-byte length prefix

Calls == 1..MaxCalls
Timeouts == 0..MaxTimeout
SYNC == MaxCalls + 1    \* owner id of the synchronous call's operations
NONE == MaxCalls + 2    \* no owner / no call

VARIABLES
    now,        \* time::now()
    busy,       \* Busyable::busy of the client
    socket,     \* ServiceClient::socket: [id: transport object, open: is_open()]
    nextSock,   \* number of transport objects constructed so far
    queue,      \* QueuedExecutor: operations waiting, oldest first
    executing,  \* QueuedExecutor: an operation was dispatched and has not finished
    nextCall,   \* id the next asyncCall gets (submission order)
    acall,      \* per asyncCall: position in the chain, AsyncState, observations
                \* (nOps: timed operations submitted on the transport so far;
                \* readErr: the error the framed read ended with)
    op,         \* the timed operation in progress on the socket (or kind "none")
    timers,     \* armed deadline timers: set of [owner, kind, deadline]
    later,      \* call whose Encoding error waits in callLater (or NONE)
    sync,       \* the synchronous call(): position, timeout, result
    nSync,      \* call() attempts so far
    nStops,     \* stop() calls so far
    hlog,       \* user handlers in the order invoked (call ids)
    last,       \* the latest user handler invocation: what it received (kept
                \* until the next call is dispatched)
    timedOut,   \* transport objects a deadline timer closed
    atStop      \* asyncCalls that were waiting in the queue when stop() ran

vars == <<now, busy, socket, nextSock, queue, executing, nextCall, acall, op,
          timers, later, sync, nSync, nStops, hlog, last, timedOut,
          atStop>>

NoOp == [kind |-> "none", owner |-> NONE, sock |-> NONE, io |-> "none",
         err |-> FALSE, got |-> 0, want |-> 0, n |-> 0]

NewCall == [st |-> "new", T |-> 0, timeout |-> 0, startTime |-> 0,
            rdStart |-> 0, rdTimeout |-> 0, numDataBytes |-> 0,
            tSubmit |-> 0, tStart |-> 0, handled |-> 0, nOps |-> 0,
            readErr |-> "none", dataLen |-> 0,
            byTimeout |-> FALSE, byStop |-> FALSE]

NoLast == [c |-> NONE, err |-> "none", resp |-> "none", T |-> 0,
           sinceSubmit |-> 0, sinceStart |-> 0, nOps |-> 0,
           readErr |-> "none", dataLen |-> 0, openAtUnlock |-> FALSE,
           byTimeout |-> FALSE, byStop |-> FALSE]

IdleSync == [pc |-> "idle", phase |-> "none", timeout |-> 0, startTime |-> 0,
             result |-> "none", ioErr |-> FALSE, openAtReturn |-> FALSE,
             openAtUnlock |-> FALSE,
             decoded |-> FALSE]

Init ==
    /\ now = 0
    /\ busy = FALSE
    /\ socket = [id |-> 0, open |-> FALSE]
    /\ nextSock = 1
    /\ queue = <<>>
    /\ executing = FALSE
    /\ nextCall = 1
    /\ acall = [c \in Calls |-> NewCall]
    /\ op = NoOp
    /\ timers = {}
    /\ later = NONE
    /\ sync = IdleSync
    /\ nSync = 0
    /\ nStops = 0
    /\ hlog = <<>>
    /\ last = NoLast
    /\ timedOut = {}
    /\ atStop = {}

\* ------------------------------------------------------ pure helpers

\* Closer::close (Closeable.h 52-56): the transport is no longer open.
close(s) == [s EXCEPT !.open = FALSE]

\* close() cancels the I/O outstanding on the transport: it completes with
\* operation_aborted and no bytes (a completed I/O keeps its result).
cancelled(o) ==
    IF o.io = "pending" THEN [o EXCEPT !.io = "ready", !.err = TRUE, !.got = 0]
    ELSE o

\* Guards released in the order of their declaration: the busy lock first,
\* while the socket is as it was, then the closer.
releaseGuardsBusyFirst(s) ==
    [socket |-> close(s), busy |-> FALSE, openAtUnlock |-> s.open]

\* The guards of a call go out of scope in reverse order of declaration
\* (AsyncState's members, ServiceClient.h 116-122; call()'s locals,
\* ServiceClient.h 59-61): the closer closes the socket, then the busy lock
\* clears the busy flag.  openAtUnlock is what is_open() was at that moment.
releaseGuards(s) ==
    LET closed == close(s) IN
    [socket |-> closed, busy |-> FALSE, openAtUnlock |-> closed.open]

\* newSocket without the replacement: the socket object is kept.
newSocketReuse(s, fresh) == s

\* ServiceClient::newSocket (ServiceClient.h 191-195): a closed socket is
\* replaced by a newly constructed one (which is not yet open).
newSocket(s, fresh) ==
    IF ~s.open THEN [id |-> fresh, open |-> FALSE] ELSE s

\* updateTimeout that keeps the origin instant: the time before the previous
\* sub-operation's completion is subtracted again.
updateTimeoutKeepsStart(timeout, startTime, nowTime) ==
    [timeout |-> timeout - (nowTime - startTime), startTime |-> startTime]

\* updateTimeout without the subtraction: the budget is never reduced.
updateTimeoutKeepsBudget(timeout, startTime, nowTime) ==
    [timeout |-> timeout, startTime |-> nowTime]

\* ServiceClient::updateTimeout (ServiceClient.h 183-189).
updateTimeout(timeout, startTime, nowTime) ==
    [timeout |-> timeout - (nowTime - startTime), startTime |-> nowTime]

\* Classification that looks at the I/O's error before the transport.
classifyErrorFirst(isOpen, opError) ==
    IF opError THEN "FailedOperation"
    ELSE IF ~isOpen THEN "Aborted"
    ELSE "Success"

\* Outcome classification in timedAsyncOperation's completion handler
\* (Closeable.h 156-160).
classify(isOpen, opError) ==
    IF ~isOpen THEN "Aborted"
    ELSE IF opError THEN "FailedOperation"
    ELSE "Success"

\* timedOperation (Closeable.h 97-111): closeableError starts as would_block
\* and the completion handler stores the I/O's error in `result`, never in
\* closeableError.
closeableErrorAfterAwait(opError) == "would_block"

\* timedOperation's verdict after the wait (Closeable.h 118-124).
timedOperationOutcome(closeableError, isOpen) ==
    IF closeableError # "none" \/ ~isOpen
    THEN IF closeableError = "operation_aborted" THEN "Aborted"
         ELSE "FailedOperation"
    ELSE "Success"

\* stream::asyncWrite's completion lambda (Stream.h 69-78).
asyncWriteResult(error, numBytesTransferred, frameSize) ==
    IF numBytesTransferred < frameSize THEN "FailedOperation" ELSE error

\* message::asyncReceive's completion lambda (Message.h 144-153): the data is
\* decoded first, whatever errorCode is; the message is set when the decoder
\* returned one.
asyncReceiveResult(errorCode, decodeOk) ==
    IF ~decodeOk THEN [err |-> "Decoding", resp |-> "null"]
    ELSE [err |-> errorCode, resp |-> "message"]

\* Timer::startTimeout: a timer due at now + timeout (at once when the
\* timeout is not positive).
startTimeout(owner, kind, timeout) ==
    [owner |-> owner, kind |-> kind, deadline |-> now + timeout]

\* Timer::stop as called by the completion handler of the operation o
\* (Closeable.h 108, 154): that operation's timer never fires afterwards.
stopTimer(ts, o) == {t \in ts : ~(t.owner = o.owner /\ t.kind = o.kind)}

\* A completion handler that leaves the timer armed.
timerStopMissing(ts, o) == ts

\* timedAsyncOperation's completion handler begins with timer->stop()
\* (Closeable.h 154): the timers that remain armed.
timerStop(ts, o) == stopTimer(ts, o)

\* The I/O part of timedAsyncOperation / timedOperation (Closeable.h 103-111,
\* 149-163): the operation is submitted on the client's transport.
submitted(owner, kind, s, want) ==
    [kind |-> kind, owner |-> owner, sock |-> s.id, io |-> "pending",
     err |-> FALSE, got |-> 0, want |-> want, n |-> 0]

\* execute putting the operation at the front of the queue.
executeFront(q, c) == <<c>> \o q

\* QueuedExecutor::execute: the operation joins the back of the queue.
execute(q, c) == Append(q, c)

\* QueuedExecutor::clear: every waiting operation is dropped.
clear(q) == <<>>

\* Dispatch that does not wait for the operation dispatched before.
canDispatchAlways(q, running) == q # <<>>

\* QueuedExecutor: the operation dispatched next is the oldest one, and only
\* when the one dispatched before has finished.
canDispatch(q, running) == q # <<>> /\ ~running

Range(q) == {q[i] : i \in 1..Len(q)}

\* --------------------------------------------- user-thread entry points

\* ServiceClient::asyncCall (ServiceClient.h 78-88): the call is handed to
\* the queued executor; calls get their ids in submission order.
asyncCall(T) ==
    /\ nextCall <= MaxCalls
    /\ queue' = execute(queue, nextCall)
    /\ acall' = [acall EXCEPT ![nextCall] =
                   [NewCall EXCEPT !.st = "queued", !.T = T, !.tSubmit = now]]
    /\ nextCall' = nextCall + 1
    /\ UNCHANGED <<now, busy, socket, nextSock, executing, op, timers, later,
                   sync, nSync, nStops, hlog, last, timedOut, atStop>>

\* The effect of stop() given the socket and the queue it leaves behind: the
\* I/O outstanding on the closed socket is cancelled, the calls removed from
\* the queue are dropped; the running call is marked when stop() hit one of
\* its timed sub-operations (connect, write or read not yet handled).
stopEffect(s2, q2) ==
    /\ socket' = s2
    /\ op' = IF s2.open THEN op ELSE cancelled(op)
    /\ queue' = q2
    /\ atStop' = atStop \cup Range(queue)
    /\ acall' = [c \in Calls |->
                  IF c \in Range(queue) \ Range(q2)
                  THEN [acall[c] EXCEPT !.st = "dropped"]
                  ELSE IF op.owner = c
                  THEN [acall[c] EXCEPT !.byStop = TRUE]
                  ELSE acall[c]]
    /\ nStops' = nStops + 1
    /\ UNCHANGED <<now, busy, nextSock, executing, nextCall, timers, later,
                   sync, nSync, hlog, last, timedOut>>

\* stop() without queuedExecutor->clear().
stopKeepsQueue ==
    /\ nStops < MaxStops
    /\ stopEffect(close(socket), queue)

\* ServiceClient::stop (ServiceClient.h 90-94).
stop ==
    /\ nStops < MaxStops
    /\ stopEffect(close(socket), clear(queue))

\* ------------------------------------------------------------ the clock

Due == {t \in timers : t.deadline <= now}

\* A handler is waiting on the executor.
HandlerReady ==
    \/ op.io = "ready"
    \/ later # NONE
    \/ sync.pc = "resume"
    \/ canDispatch(queue, executing)

\* Time passes only when no handler is ready and no timer is due.
Tick ==
    /\ now < MaxTime
    /\ Due = {}
    /\ ~HandlerReady
    /\ now' = now + 1
    /\ UNCHANGED <<busy, socket, nextSock, queue, executing, nextCall, acall,
                   op, timers, later, sync, nSync, nStops, hlog, last, timedOut,
                   atStop>>

\* The timer handler of a timed operation (Closeable.h 90-94, 144-147): close
\* the client's socket.  The I/O outstanding on it completes as cancelled.
timerHandler(t) ==
    /\ timers' = timers \ {t}
    /\ socket' = close(socket)
    /\ op' = cancelled(op)
    /\ timedOut' = IF socket.open THEN timedOut \cup {socket.id} ELSE timedOut
    /\ acall' = IF socket.open /\ op.owner \in Calls
                THEN [acall EXCEPT ![op.owner].byTimeout = TRUE]
                ELSE acall
    /\ UNCHANGED <<now, busy, nextSock, queue, executing, nextCall, later,
                   sync, nSync, nStops, hlog, last, atStop>>

\* The timer of a timed operation expires at a moment the clock of the
\* behaviour does not measure: any armed timer may run its handler.
TimerExpire(t) ==
    /\ t \in timers
    /\ timerHandler(t)

\* The timer of a timed operation expires when its deadline has come.
TimerFire(t) ==
    /\ t \in Due
    /\ timerHandler(t)

\* What the network can answer to the outstanding I/O: connect succeeds or
\* fails; a read or write transfers everything, fails, or ends short.  A
\* header read in full brings the length n the peer wrote into it.
Outcomes(o) ==
    IF o.kind = "connect"
    THEN {[err |-> FALSE, got |-> 0, n |-> 0], [err |-> TRUE, got |-> 0, n |-> 0]}
    ELSE {[err |-> FALSE, got |-> o.want, n |-> k] :
              k \in IF o.kind = "header" THEN 0..MaxBody ELSE {0}}
         \cup {[err |-> TRUE, got |-> 0, n |-> 0],
               [err |-> FALSE, got |-> 0, n |-> 0]}

\* The outstanding I/O completes; its handler is now ready to run.
IOComplete ==
    /\ op.io = "pending"
    /\ \E r \in Outcomes(op) :
          op' = [op EXCEPT !.io = "ready", !.err = r.err, !.got = r.got,
                           !.n = r.n]
    /\ UNCHANGED <<now, busy, socket, nextSock, queue, executing, nextCall,
                   acall, timers, later, sync, nSync, nStops, hlog, last, timedOut,
                   atStop>>

\* ------------------------------------------------- the asyncCall chain

\* BusyLock's constructor raises Busy when the client is already busy.
busyLockThrows(b) == b

\* asyncConnect: a timed connect; the socket is opened when the connect is
\* submitted on it.
opened(s) == [s EXCEPT !.open = TRUE]

\* ServiceClient::asyncCallOperation up to the submission of the connect
\* (ServiceClient.h 130-146), run when the queued executor dispatches the
\* oldest waiting call.  AsyncState's first member is the BusyLock
\* (ServiceClient.h 107, 116): when it raises Busy nothing else of the
\* operation runs, and the handler the executor waits for is never invoked.
asyncCallOperation ==
    /\ canDispatch(queue, executing)
    /\ LET c == Head(queue) IN
         /\ queue' = Tail(queue)
         /\ executing' = TRUE
         /\ IF busyLockThrows(busy)
            THEN /\ acall' = [acall EXCEPT ![c] =
                                [NewCall EXCEPT !.st = "threw"]]
                 /\ UNCHANGED <<busy, socket, nextSock, op, timers>>
            ELSE LET s == newSocket(socket, nextSock) IN
                 /\ busy' = TRUE
                 /\ acall' = [acall EXCEPT ![c].st = "connecting",
                                         ![c].timeout = acall[c].T,
                                         ![c].startTime = now,
                                         ![c].tStart = now,
                                         ![c].nOps = 1]
                 /\ nextSock' = IF s.id = socket.id THEN nextSock ELSE nextSock + 1
                 /\ socket' = opened(s)
                 /\ op' = submitted(c, "connect", s, 0)
                 /\ timers' = timers \cup {startTimeout(c, "connect", acall[c].T)}
    /\ last' = NoLast
    /\ UNCHANGED <<now, nextCall, later, sync, nSync, nStops, hlog, timedOut,
                   atStop>>

\* The end of the chain with an AsyncState that has no closer: the busy lock
\* is released, the socket is left as it is.
invokeHandlerNoCloser(c, st, error, response) ==
    /\ acall' = [acall EXCEPT ![c] =
                    [NewCall EXCEPT !.st = "done",
                                    !.handled = st.handled + 1]]
    /\ last' = [c |-> c, err |-> error, resp |-> response, T |-> st.T,
                sinceSubmit |-> now - st.tSubmit,
                sinceStart |-> now - st.tStart, nOps |-> st.nOps,
                readErr |-> st.readErr, dataLen |-> st.dataLen,
                openAtUnlock |-> socket.open,
                byTimeout |-> st.byTimeout, byStop |-> st.byStop]
    /\ hlog' = Append(hlog, c)
    /\ executing' = FALSE
    /\ socket' = socket
    /\ busy' = FALSE
    /\ op' = NoOp

\* state->handler(error, response) followed by the release of the AsyncState
\* when the continuation that invoked it returns (ServiceClient.h 152, 166,
\* 177; members 116-122 destroyed in reverse order: the closer closes the
\* socket, then the busy lock is released).  The handler the executor passed
\* in also tells the executor that the operation has finished.
invokeHandler(c, st, error, response) ==
    /\ acall' = [acall EXCEPT ![c] =
                    [NewCall EXCEPT !.st = "done",
                                    !.handled = st.handled + 1]]
    /\ last' = [c |-> c, err |-> error, resp |-> response, T |-> st.T,
                sinceSubmit |-> now - st.tSubmit,
                sinceStart |-> now - st.tStart, nOps |-> st.nOps,
                readErr |-> st.readErr, dataLen |-> st.dataLen,
                openAtUnlock |-> releaseGuards(socket).openAtUnlock,
                byTimeout |-> st.byTimeout, byStop |-> st.byStop]
    /\ hlog' = Append(hlog, c)
    /\ executing' = FALSE
    /\ socket' = releaseGuards(socket).socket
    /\ busy' = releaseGuards(socket).busy
    /\ op' = NoOp

\* asyncSend calling the handler itself when the encoder fails, before it
\* returns.
asyncSendInline(c, st, ts, encodeOk, len) ==
    IF ~encodeOk
    THEN /\ invokeHandler(c, st, "Encoding", "null")
         /\ later' = later
         /\ timers' = ts
    ELSE /\ acall' = [acall EXCEPT ![c] = [st EXCEPT !.nOps = @ + 1]]
         /\ later' = later
         /\ op' = submitted(c, "write", socket, HEADER_SIZE + len)
         /\ timers' = ts \cup {startTimeout(c, "write", st.timeout)}
         /\ UNCHANGED <<socket, busy, executing, hlog, last>>

\* message::asyncSend (Message.h 102-120) over stream::asyncWrite (Stream.h
\* 56-80): an encoder failure is reported later through callLater; otherwise
\* one timed write of the whole frame is submitted.
asyncSend(c, st, ts, encodeOk, len) ==
    /\ IF ~encodeOk
       THEN /\ acall' = [acall EXCEPT ![c] = st]
            /\ later' = c
            /\ op' = NoOp
            /\ timers' = ts
       ELSE /\ acall' = [acall EXCEPT ![c] = [st EXCEPT !.nOps = @ + 1]]
            /\ later' = later
            /\ op' = submitted(c, "write", socket, HEADER_SIZE + len)
            /\ timers' = ts \cup {startTimeout(c, "write", st.timeout)}
    /\ UNCHANGED <<socket, busy, executing, hlog, last>>

\* The completion handler of the timed connect (Closeable.h 152-163) and the
\* continuation it calls (ServiceClient.h 147-160).
ConnectHandler ==
    /\ op.kind = "connect" /\ op.owner \in Calls /\ op.io = "ready"
    /\ LET c == op.owner
           ts == timerStop(timers, op)
           error == classify(socket.open, op.err)
           u == updateTimeout(acall[c].timeout, acall[c].startTime, now)
       IN IF error # "Success"
          THEN /\ invokeHandler(c, acall[c], error, "null")
               /\ timers' = ts
               /\ later' = later
          ELSE \E encodeOk \in BOOLEAN, len \in 0..MaxBody :
                  asyncSend(c, [acall[c] EXCEPT !.st = "sending",
                                               !.timeout = u.timeout,
                                               !.startTime = u.startTime],
                            ts, encodeOk, len)
    /\ UNCHANGED <<now, nextSock, queue, nextCall, sync, nSync, nStops,
                   timedOut, atStop>>

\* The handler asyncSend posted for an encoder failure (Message.h 112-113)
\* and the continuation it calls (ServiceClient.h 161-168).
EncodingLater ==
    /\ later # NONE
    /\ invokeHandler(later, acall[later], "Encoding", "null")
    /\ later' = NONE
    /\ UNCHANGED <<now, nextSock, queue, nextCall, timers, sync, nSync,
                   nStops, timedOut, atStop>>

\* The completion lambda of message::asyncReceive (Message.h 144-153) and the
\* last continuation of the chain (ServiceClient.h 175-178), called by
\* asyncRead's handler with its error and data of dataLen bytes.  The
\* decoder's verdict on the data is the user's: either outcome is possible.
receiveDone(c, errorCode, dataLen) ==
    \E decodeOk \in BOOLEAN :
        LET res == asyncReceiveResult(errorCode, decodeOk) IN
        invokeHandler(c, [acall[c] EXCEPT !.readErr = errorCode,
                                          !.dataLen = dataLen],
                      res.err, res.resp)

\* The completion handler of the timed write (Closeable.h 152-163; Stream.h
\* 69-78; Message.h 119) and the continuation it calls (ServiceClient.h
\* 161-174), which starts the framed read: asyncRead notes its start time
\* and submits the timed read of the header (Stream.h 91-98, 152).
WriteHandler ==
    /\ op.kind = "write" /\ op.owner \in Calls /\ op.io = "ready"
    /\ LET c == op.owner
           ts == timerStop(timers, op)
           error == asyncWriteResult(classify(socket.open, op.err),
                                     op.got, op.want)
           u == updateTimeout(acall[c].timeout, acall[c].startTime, now)
       IN IF error # "Success"
          THEN /\ invokeHandler(c, acall[c], error, "null")
               /\ timers' = ts
          ELSE /\ acall' = [acall EXCEPT ![c].st = "receiving",
                                       ![c].timeout = u.timeout,
                                       ![c].startTime = u.startTime,
                                       ![c].rdStart = now,
                                       ![c].nOps = @ + 1,
                                       ![c].rdTimeout = u.timeout]
               /\ op' = submitted(c, "header", socket, HEADER_SIZE)
               /\ timers' = ts \cup {startTimeout(c, "header", u.timeout)}
               /\ UNCHANGED <<socket, busy, executing, hlog, last>>
    /\ UNCHANGED <<now, nextSock, queue, nextCall, later, sync, nSync,
                   nStops, timedOut, atStop>>

\* internal::numDataBytesFromBuffer (Stream.h 43-47): the length the peer
\* wrote in the header that was read.
numDataBytesFromBuffer(o) == o.n

\* A byte-count test that accepts any count.
wrongByteCountNever(numBytesTransferred, requested) == FALSE

\* asyncRead's test of a phase's byte count against the count requested
\* (Stream.h 109, 141).
wrongByteCount(numBytesTransferred, requested) ==
    numBytesTransferred # requested

\* A header read that never counts as an empty frame.
isEmptyFrameNever(numDataBytes) == FALSE

\* asyncRead's test for a frame without payload (Stream.h 116).
isEmptyFrame(numDataBytes) == numDataBytes = 0

\* The completion handler of the timed header read (Closeable.h 152-163;
\* Stream.h 98-152).
HeaderHandler ==
    /\ op.kind = "header" /\ op.owner \in Calls /\ op.io = "ready"
    /\ LET c == op.owner
           ts == timerStop(timers, op)
           error == classify(socket.open, op.err)
       IN IF error # "Success"
          THEN receiveDone(c, error, 0) /\ timers' = ts
          ELSE IF wrongByteCount(op.got, HEADER_SIZE)
          THEN receiveDone(c, "InvalidFrame", 0) /\ timers' = ts
          ELSE LET numDataBytes == numDataBytesFromBuffer(op) IN
                 IF isEmptyFrame(numDataBytes)
                 THEN receiveDone(c, error, 0) /\ timers' = ts
                 ELSE LET newTimeout ==
                            acall[c].rdTimeout - (now - acall[c].rdStart)
                      IN /\ acall' = [acall EXCEPT
                                        ![c].numDataBytes = numDataBytes,
                                        ![c].nOps = @ + 1]
                         /\ op' = submitted(c, "body", socket, numDataBytes)
                         /\ timers' = ts \cup
                                {startTimeout(c, "body", newTimeout)}
                         /\ UNCHANGED <<socket, busy, executing, hlog, last>>
    /\ UNCHANGED <<now, nextSock, queue, nextCall, later, sync, nSync,
                   nStops, timedOut, atStop>>

\* The completion handler of the timed body read (Closeable.h 152-163;
\* Stream.h 130-149).
BodyHandler ==
    /\ op.kind = "body" /\ op.owner \in Calls /\ op.io = "ready"
    /\ LET c == op.owner
           error == classify(socket.open, op.err)
       IN /\ IF error # "Success"
             THEN receiveDone(c, error, 0)
             ELSE IF wrongByteCount(op.got, acall[c].numDataBytes)
             THEN receiveDone(c, "InvalidFrame", 0)
             ELSE receiveDone(c, error, acall[c].numDataBytes)
          /\ timers' = timerStop(timers, op)
    /\ UNCHANGED <<now, nextSock, queue, nextCall, later, sync, nSync,
                   nStops, timedOut, atStop>>

\* ------------------------------------------------ the synchronous call

\* ServiceClient::call from the scoped closer to the submission of the timed
\* connect (ServiceClient.h 61-68; timedOperation, Closeable.h 85-111).
callStart(T) ==
    LET s == newSocket(socket, nextSock) IN
    /\ busy' = TRUE
    /\ nextSock' = IF s.id = socket.id THEN nextSock ELSE nextSock + 1
    /\ socket' = opened(s)
    /\ op' = submitted(SYNC, "connect", s, 0)
    /\ timers' = timers \cup {startTimeout(SYNC, "connect", T)}
    /\ sync' = [IdleSync EXCEPT !.pc = "await", !.phase = "connect",
                                !.timeout = T, !.startTime = now]

\* call() with the scoped closer constructed before the busy lock: when the
\* lock raises Busy the closer closes the socket on the way out.
callCloserFirst(T) ==
    /\ nSync < MaxSync
    /\ sync.pc = "idle"
    /\ nSync' = nSync + 1
    /\ IF busyLockThrows(busy)
       THEN /\ sync' = [IdleSync EXCEPT !.result = "Busy"]
            /\ socket' = close(socket)
            /\ op' = cancelled(op)
            /\ UNCHANGED <<busy, nextSock, timers>>
       ELSE callStart(T)
    /\ UNCHANGED <<now, queue, executing, nextCall, acall, later, nStops,
                   hlog, last, timedOut, atStop>>

\* ServiceClient::call, entry (ServiceClient.h 54-68): the busy lock is taken
\* first; when it raises Busy nothing else of call() runs.
call(T) ==
    /\ nSync < MaxSync
    /\ sync.pc = "idle"
    /\ nSync' = nSync + 1
    /\ IF busyLockThrows(busy)
       THEN /\ sync' = [IdleSync EXCEPT !.result = "Busy"]
            /\ UNCHANGED <<busy, socket, nextSock, op, timers>>
       ELSE callStart(T)
    /\ UNCHANGED <<now, queue, executing, nextCall, acall, later, nStops,
                   hlog, last, timedOut, atStop>>

\* The completion handler of timedOperation (Closeable.h 105-111), run by the
\* executor while call() waits: it stops the timer and stores the result.
SyncIOHandler ==
    /\ op.owner = SYNC /\ op.io = "ready"
    /\ timers' = stopTimer(timers, op)
    /\ sync' = [sync EXCEPT !.pc = "resume", !.ioErr = op.err]
    /\ op' = NoOp
    /\ UNCHANGED <<now, busy, socket, nextSock, queue, executing, nextCall,
                   acall, later, nSync, nStops, hlog, last, timedOut, atStop>>

\* call() is left, by return or by exception: the scoped closer closes the
\* socket, then the busy lock is released (ServiceClient.h 59-61).
callExit(result) ==
    /\ sync' = [IdleSync EXCEPT !.result = result, !.phase = sync.phase,
                                !.ioErr = sync.ioErr,
                                !.openAtReturn = socket.open,
                                !.openAtUnlock =
                                    releaseGuards(socket).openAtUnlock]
    /\ socket' = releaseGuards(socket).socket
    /\ busy' = releaseGuards(socket).busy
    /\ op' = NoOp
    /\ timers' = timers

\* The next timed operation of call() (ServiceClient.h 69-75).
callNext(phase, kind, want, u) ==
    /\ sync' = [sync EXCEPT !.pc = "await", !.phase = phase,
                            !.timeout = u.timeout, !.startTime = u.startTime]
    /\ op' = submitted(SYNC, kind, socket, want)
    /\ timers' = timers \cup {startTimeout(SYNC, kind, u.timeout)}
    /\ UNCHANGED <<socket, busy>>

\* call() after the wait of a timed operation (Closeable.h 113-124): the
\* verdict is taken from closeableError and the socket; on Success call()
\* goes on with send, then receive (ServiceClient.h 69-75; Message.h 96-99,
\* 128-132).
callResume ==
    /\ sync.pc = "resume"
    /\ LET out == timedOperationOutcome(closeableErrorAfterAwait(sync.ioErr),
                                        socket.open)
           u == updateTimeout(sync.timeout, sync.startTime, now)
       IN IF out # "Success"
          THEN callExit(out)
          ELSE IF sync.phase = "connect"
          THEN \E encodeOk \in BOOLEAN, len \in 0..MaxBody :
                  IF encodeOk
                  THEN callNext("send", "write", HEADER_SIZE + len, u)
                  ELSE callExit("Encoding")
          ELSE IF sync.phase = "send"
          THEN callNext("receive", "header", HEADER_SIZE, u)
          ELSE \E decodeOk \in BOOLEAN :
                  callExit(IF decodeOk THEN "Success" ELSE "Decoding")
    /\ UNCHANGED <<now, nextSock, queue, executing, nextCall, acall, later,
                   nSync, nStops, hlog, last, timedOut, atStop>>

\* ------------------------------------------------------ specification

\* The executor's steps for asyncCalls, common to both specifications.
Handlers ==
    \/ asyncCallOperation
    \/ IOComplete
    \/ ConnectHandler
    \/ EncodingLater
    \/ WriteHandler
    \/ HeaderHandler
    \/ BodyHandler

\* Spec: deadlines are not measured; an armed timer may expire at any moment.
Next ==
    \/ asyncCall(MaxTimeout)
    \/ stop
    \/ call(MaxTimeout)
    \/ \E t \in timers : TimerExpire(t)
    \/ Handlers
    \/ SyncIOHandler
    \/ callResume

Spec == Init /\ [][Next]_vars

\* SpecTimed: the clock runs, timers fire at their deadlines.
NextTimed ==
    \/ \E T \in Timeouts : asyncCall(T)
    \/ Tick
    \/ \E t \in timers : TimerFire(t)
    \/ Handlers

SpecTimed == Init /\ [][NextTimed]_vars

\* ------------------------------------------------------------- claims

Started == {"connecting", "sending", "receiving", "done", "threw"}
InProgress == {c \in Calls : acall[c].st \in {"connecting", "sending", "receiving"}}
Ended(c) == acall[c].st \in {"done", "threw"}

\* C1: every asyncCall that was dispatched (not dropped from the queue by
\* stop()) has its user handler invoked exactly once: never twice, and once
\* its operation has ended (the chain delivered its result, or the operation
\* was left by an exception) the handler has run.
C1_HandlerExactlyOnce ==
    \A c \in Calls :
        /\ acall[c].handled <= 1
        /\ Ended(c) => acall[c].handled = 1

\* C2: a synchronous call whose timed operations all completed without an
\* I/O error, with the transport still open at the end of each wait, and
\* whose encoder and decoder did not fail, finishes as Success.
C2_SyncCallSucceeds ==
    (/\ sync.pc = "idle"
     /\ sync.result \notin {"none", "Busy", "Encoding", "Decoding"}
     /\ ~sync.ioErr
     /\ sync.openAtReturn)
    => sync.result = "Success"

\* C3: when a deadline timer of one of the call's timed sub-operations fired
\* and closed the transport before that sub-operation's completion handler
\* ran, the user handler receives Aborted.
C3_TimeoutIsAborted ==
    last.byTimeout => last.err = "Aborted"

\* C4: user handlers are invoked in submission order (call ids are given in
\* submission order): a later call's handler never runs before an earlier
\* call's.
C4_HandlersInSubmissionOrder ==
    \A i, j \in 1..Len(hlog) : i < j => hlog[i] < hlog[j]

\* C4 witness: two handlers have run, the first call's first.
C4_Witness ==
    Len(hlog) >= 2 /\ hlog[1] = 1 /\ hlog[2] = 2

\* C5: at most one asyncCall is in progress, and a call is dispatched (and
\* so its connect started) only when every call submitted before it has
\* ended or was dropped.
C5_OneCallAtATime ==
    /\ Cardinality(InProgress) <= 1
    /\ \A c, d \in Calls :
          (d < c /\ acall[c].st \in Started)
          => acall[d].st \in {"done", "threw", "dropped"}

\* C5 witness: the second call is connecting after the first one's handler
\* returned; both were submitted before the first was dispatched.
C5_Witness ==
    /\ acall[1].st = "done" /\ acall[1].handled = 1
    /\ acall[2].st = "connecting"
    /\ op.kind = "connect" /\ op.owner = 2

\* C6: a synchronous call() attempted while the client is busy fails with
\* Busy and changes nothing else: the socket, the busy flag, the operation
\* in flight with its timer, the calls and the queue are as before.
C6_BusyCallChangesNothing ==
    [][(nSync' = nSync + 1 /\ busy)
       => /\ sync'.result = "Busy"
          /\ UNCHANGED <<socket, busy, op, timers, acall, queue, executing,
                         later, hlog, last>>]_vars

\* C6 witness: the only asyncCall was in flight when call() was refused with
\* Busy, and it went on to deliver Success.
C6_Witness ==
    /\ sync.result = "Busy" /\ nSync = 1
    /\ nextCall = 2 /\ last.c = 1 /\ last.err = "Success"

\* C7: when stop() ran while a timed sub-operation of the call (its connect,
\* write or read) was outstanding, the user handler receives Aborted.
C7_StopIsAborted ==
    last.byStop => last.err = "Aborted"

\* C8: a call that was waiting in the queue when stop() ran is dropped and
\* never dispatched; every other submitted call is not dropped: it waits in
\* the queue until it is dispatched.
C8_StopDropsQueued ==
    /\ \A c \in atStop : acall[c].st = "dropped"
    /\ \A c \in Calls \ atStop :
          /\ acall[c].st # "dropped"
          /\ acall[c].st = "queued" <=> c \in Range(queue)

\* C8 witness: call 1 was dropped by stop(); call 2, submitted afterwards,
\* has been dispatched and is connecting.
C8_Witness ==
    /\ 1 \in atStop /\ acall[1].st = "dropped"
    /\ 2 \notin atStop /\ acall[2].st = "connecting"

\* C9 as claimed: the handler runs at most T plus one clock tick after the
\* asyncCall was submitted, the wait in the queue included.
C9_DeadlineFromSubmission ==
    last.c # NONE => last.sinceSubmit <= last.T + 1

\* C9 as amended: the handler runs at most T after the call was dispatched
\* (asyncCallOperation took its start time); due timers and ready handlers
\* run before the clock advances, so the timer quantum is no tick at all.
C9_DeadlineFromDispatch ==
    last.c # NONE => last.sinceStart <= last.T

\* C9 witness: a call with a positive timeout used its whole budget: its
\* deadline timer closed the transport and the handler ran T after dispatch.
C9_Witness ==
    /\ last.c # NONE /\ last.T > 0
    /\ last.byTimeout /\ last.sinceStart = last.T

\* C10: no operation is ever outstanding on a transport object that a
\* deadline timer closed: the timer's close completes the I/O outstanding on
\* it, and every later operation is submitted on the client's current
\* socket, which newSocket replaced.
C10_FreshTransportAfterTimeout ==
    /\ op.io = "pending" => op.sock \notin timedOut
    /\ op.kind # "none" => op.sock = socket.id

\* C10 witness: a timeout closed a transport, and the next call's connect is
\* outstanding on a transport constructed after it.
C10_Witness ==
    /\ op.kind = "connect" /\ op.io = "pending"
    /\ \E id \in timedOut : op.sock > id

\* C11: in an asyncCall with timeout T dispatched at instant s, the timeout
\* handed to the send (write) and to the receive (header read) is T minus the
\* time elapsed since s: the timer armed with it is due at s + T exactly, and
\* the remaining budget the call carries is T minus the time from s to the
\* completion of the previous sub-operation, never more than T.
C11_RemainingBudget ==
    /\ \A c \in Calls :
          acall[c].st \in {"sending", "receiving"}
          => /\ acall[c].timeout
                   = acall[c].T - (acall[c].startTime - acall[c].tStart)
             /\ acall[c].timeout <= acall[c].T
    /\ \A t \in timers :
          (t.owner \in Calls /\ t.kind \in {"write", "header"})
          => t.deadline = acall[t.owner].tStart + acall[t.owner].T

\* C11 witness: the read of a call is outstanding with its timer armed, the
\* send having completed later than the call started: the budget handed to
\* the receive is smaller than T.
C11_Witness ==
    \E c \in Calls :
        /\ acall[c].st = "receiving" /\ op.kind = "header" /\ op.owner = c
        /\ acall[c].startTime > acall[c].tStart
        /\ acall[c].timeout < acall[c].T
        /\ \E t \in timers : t.owner = c /\ t.kind = "header"

\* C12: when the encoder fails in asyncSend, the step that ran asyncSend
\* submits no write, arms no timer and invokes no handler; while the failure
\* waits to be delivered nothing is outstanding on the transport; and the
\* handler is invoked with Encoding by a later step, once, for the call whose
\* encoder failed.
C12_EncodingDeliveredLater ==
    /\ [](later # NONE => (op.kind = "none" /\ acall[later].handled = 0))
    /\ [][(later = NONE /\ later' # NONE)
           => (op'.kind = "none" /\ timers' \subseteq timers /\ hlog' = hlog)]_vars
    /\ [][(hlog' # hlog /\ last'.err = "Encoding")
           => (/\ later = last'.c
               /\ later' = NONE
               /\ acall'[last'.c].handled = 1)]_vars

\* C12 witness: the encoder failed and its call's handler has been invoked,
\* once, with Encoding.
C12_Witness ==
    /\ last.c \in Calls /\ last.err = "Encoding"
    /\ acall[last.c].st = "done" /\ acall[last.c].handled = 1
    /\ later = NONE

\* C13: when the encoder fails for the request of an asyncCall, the handler
\* receives Encoding with a null response, and no timed operation (connect,
\* write or read) was submitted on the transport for that call.
C13_EncodingNoSocketWork ==
    (last.c \in Calls /\ last.err = "Encoding")
    => (last.resp = "null" /\ last.nOps = 0)

\* C14: when the framed read ended with an error, the handler of
\* asyncReceive receives that error, whatever the decoder makes of the empty
\* data; Decoding is delivered only after a read that ended with Success.
C14_DecodingOnlyAfterRead ==
    /\ last.readErr \notin {"none", "Success"} => last.err = last.readErr
    /\ last.err = "Decoding" => last.readErr = "Success"

\* C15: whenever the user handler of an asyncCall is invoked with an error
\* other than Success the response it receives is null.
C15_NullResponseOnError ==
    (last.c \in Calls /\ last.err # "Success") => last.resp = "null"

\* The completion handler of the asyncCall's timed operation runs in this
\* step.
C16_CompletionStep ==
    op.io = "ready" /\ op.owner \in Calls /\ op' # op

\* What the handler given to timedAsyncOperation was told, read off the step:
\* a connect error goes to the user handler as it is and Success goes on to
\* the send; a write that transferred the whole frame likewise goes on to
\* the read; a read error is what asyncRead hands on (InvalidFrame and a
\* further read are asyncRead's own verdicts on a Success).
C16_Observed ==
    IF hlog' = hlog THEN "Success"
    ELSE IF op.kind \in {"connect", "write"} THEN last'.err
    ELSE IF last'.readErr = "InvalidFrame" THEN "Success"
    ELSE last'.readErr

\* C16: the completion handler of timedAsyncOperation reports Aborted exactly
\* when the transport is not open as it runs (whatever the I/O reported),
\* otherwise FailedOperation exactly when the I/O reported an error,
\* otherwise Success.
C16_Classification ==
    [][(C16_CompletionStep /\ (op.kind = "write" => op.got >= op.want))
       => C16_Observed = (IF ~socket.open THEN "Aborted"
                          ELSE IF op.err THEN "FailedOperation"
                          ELSE "Success")]_vars

\* C16 witness: the connect's completion handler ran after the deadline timer
\* had closed the transport, and the user handler received Aborted.
C16_Witness ==
    /\ last.c \in Calls /\ last.nOps = 1
    /\ last.byTimeout /\ last.err = "Aborted"

\* C17: the only timer ever armed is the one of the timed operation still
\* waiting for its completion handler: once that handler has run its timer
\* is gone, so no timer closes the transport during a later sub-operation or
\* a later call.  When a timer does close the transport, it is the timer of
\* the operation in progress, and that operation's completion handler, which
\* has yet to run, finds the transport closed.
C17_TimerCancelledByCompletion ==
    /\ [](\A t \in timers : t.owner = op.owner /\ t.kind = op.kind)
    /\ [][timedOut' # timedOut
           => (/\ \E t \in timers \ timers' :
                     t.owner = op.owner /\ t.kind = op.kind
               /\ ~socket'.open
               /\ op'.kind = op.kind /\ op'.io = "ready")]_vars

\* C17 witness: the second call's read is outstanding on an open transport
\* after the first call ended; of all the timers armed so far only the
\* read's own is left.
C17_Witness ==
    /\ hlog = <<1>> /\ acall[1].st = "done"
    /\ op.owner = 2 /\ op.kind = "header" /\ op.io = "pending"
    /\ socket.open
    /\ Cardinality(timers) = 1

\* C18: a timed operation started with a timeout that is not positive never
\* ends as Success: the connect of a call whose timeout is not positive is
\* never classified Success (the call never goes on to send or receive), and
\* the call's handler never receives Success.
C18_ZeroTimeoutNeverSucceeds ==
    /\ \A c \in Calls :
          acall[c].T <= 0 => acall[c].st \notin {"sending", "receiving"}
    /\ (last.c \in Calls /\ last.T <= 0) => last.err # "Success"

\* C19: while an asyncCall is in progress (a sub-operation outstanding, or an
\* encoder failure waiting to be delivered) the busy flag stays set; the step
\* that ends the call, on whatever path, invokes the handler and leaves the
\* busy flag clear and the transport closed, with nothing outstanding on it.
C19_GuardsReleasedAtEnd ==
    /\ [](\A c \in Calls :
            acall[c].st \in {"connecting", "sending", "receiving"}
            => (busy /\ acall[c].handled = 0))
    /\ [][hlog' # hlog
           => (/\ busy /\ ~busy'
               /\ ~socket'.open
               /\ op'.kind = "none"
               /\ acall'[last'.c].st = "done")]_vars

\* C19 witness: a call ended with Success after its receive (connect, write
\* and read were submitted); the client is not busy and the transport is
\* closed.
C19_Witness ==
    /\ last.c \in Calls /\ last.err = "Success" /\ last.nOps >= 3
    /\ acall[last.c].st = "done"
    /\ ~busy /\ ~socket.open /\ sync.pc = "idle"

\* C20: when the header read of the framed asyncRead completes with no error
\* on an open transport, with HEADER_SIZE bytes and the length 0 in them, that
\* step invokes the handler, once, with Success and empty data; no body read
\* is submitted and no further timer is armed (the call used three timed
\* operations: connect, write, header read).
C20_EmptyFrame ==
    [][(/\ op.kind = "header" /\ op.owner \in Calls
        /\ op.io = "ready" /\ op' # op
        /\ socket.open /\ ~op.err
        /\ op.got = HEADER_SIZE /\ op.n = 0)
       => (/\ hlog' = Append(hlog, op.owner)
           /\ acall'[op.owner].handled = 1
           /\ last'.readErr = "Success" /\ last'.dataLen = 0
           /\ last'.nOps = 3
           /\ op'.kind = "none"
           /\ timers' = {})]_vars

\* C20 witness: a call ended on a read that delivered Success and empty data
\* after three timed operations, the header read being the last.
C20_Witness ==
    /\ last.c \in Calls /\ last.nOps = 3
    /\ last.readErr = "Success" /\ last.dataLen = 0
    /\ acall[last.c].handled = 1

\* A phase of the asyncCall's framed read (header or body) is handled in
\* this step.
C21_PhaseStep ==
    /\ op.kind \in {"header", "body"} /\ op.owner \in Calls
    /\ op.io = "ready" /\ op' # op

\* The error the phase completed with, as its timed operation reports it.
C21_PhaseError ==
    IF ~socket.open THEN "Aborted"
    ELSE IF op.err THEN "FailedOperation"
    ELSE "Success"

\* The byte count the phase asked for: the header's size, or the length the
\* header announced.
C21_Requested ==
    IF op.kind = "header" THEN HEADER_SIZE
    ELSE acall[op.owner].numDataBytes

\* C21: a phase of the framed read that completes with an error hands that
\* error, unchanged, and empty data to the handler, and starts no further
\* read (no body read after a failed header read); a phase that completes
\* without error but with another byte count than requested hands over
\* InvalidFrame and empty data.
C21_InvalidFrame ==
    [][C21_PhaseStep
       => /\ (C21_PhaseError # "Success")
             => (/\ hlog' = Append(hlog, op.owner)
                 /\ last'.readErr = C21_PhaseError
                 /\ last'.dataLen = 0
                 /\ op'.kind = "none")
          /\ (C21_PhaseError = "Success" /\ op.got # C21_Requested)
             => (/\ hlog' = Append(hlog, op.owner)
                 /\ last'.readErr = "InvalidFrame"
                 /\ last'.dataLen = 0
                 /\ op'.kind = "none")]_vars

\* C21 witness: the body read of a call ended short without an error, and
\* the read handed over InvalidFrame and empty data.
C21_Witness ==
    /\ last.c \in Calls /\ last.nOps = 4
    /\ last.readErr = "InvalidFrame" /\ last.dataLen = 0
    /\ ~last.byTimeout /\ ~last.byStop

\* C22: in every reachable state, whenever the busy flag is clear the
\* client's transport is closed; and whenever a call's guards were released
\* (at the end of an asyncCall's chain or on leaving call()) the transport
\* was already closed at the moment the busy flag was cleared.
C22_ClosedWhenIdle ==
    /\ ~busy => ~socket.open
    /\ ~last.openAtUnlock
    /\ ~sync.openAtUnlock

\* C22 witness: an asyncCall's connect failed on an open transport, with no
\* timeout and no stop(): the guards closed the transport and cleared the
\* busy flag.
C22_Witness ==
    /\ last.c \in Calls /\ last.nOps = 1 /\ last.err = "FailedOperation"
    /\ ~last.byTimeout /\ ~last.byStop /\ nStops = 0
    /\ ~busy /\ ~socket.open /\ socket.id > 0

====
